---- MODULE Spec2Model ----
(***************************************************************************)
(* Model of examples/COUPLE/lammps_vasp/vasp_wrap.py: the server side of   *)
(* the client/server "md" coupling protocol.  The main program is one      *)
(* sequential script; pc is its position.  The client, the POSCAR          *)
(* template, the files in the working directory and the VASP binary are    *)
(* the environment: their values are drawn from small sets.                *)
(***************************************************************************)
EXTENDS Integers, Sequences, FiniteSets, TLC

\* ---------------------------------------------------------------- bounds
MaxAtoms == 3      \* largest atom count in a template word / client message
MaxWords == 2      \* most words on line 7 of the POSCAR template
MaxRecv  == 2      \* most messages received inside the server loop

\* ------------------------------------------------------- program constants
COORDS == 9        \* UNITS..CHARGE = range(1,10+1)
FORCES == 1        \* FORCES,ENERGY,VIRIAL = range(1,3+1)
ENERGY == 2
VIRIAL == 3

\* exit status of the process; NotExited while it is running
NotExited == 0 - 1
\* the word '#' on the counts line of the template (words are integers here)
Hash == 0 - 1

\* ---------------------------------------------------------- input domains
Modes     == {"file", "zmq", "other"}
Protocols == {"md", "mc"}
MsgIDs    == {0 - 1, 0, 1, 2}
Words     == {Hash} \cup (1..MaxAtoms)
Templates == UNION { [1..n -> Words] : n \in 1..MaxWords }
\* payload of a COORDS field: 3 values per atom, value k at position k
ClientCoords == { [k \in 1..(3*nc) |-> k] : nc \in 0..MaxAtoms }
\* vasprun.xml as left in the working directory by an earlier run
AbsentFile == [state |-> "absent", nforce |-> 0, stamp |-> 0]
OldFiles   == {AbsentFile} \cup
              { [state |-> "ok", nforce |-> 3*n, stamp |-> 0] : n \in 1..MaxAtoms }

VARIABLES
  pc,          \* position in the main program
  natoms,      \* vasp_setup result
  ntypes,      \* vasp_setup result
  msgID,       \* ID of the last message received
  protocol,    \* string unpacked from field 1 of the first message
  coords,      \* list unpacked from the COORDS field
  types,       \* the types list handed to poscar_write
  poscar,      \* coordinate lines of the POSCAR file written last
  vasprun,     \* the vasprun.xml file in the working directory
  forces,      \* fout of vasprun_read: number of values and producing run
  virial,      \* sout of vasprun_read: number of values
  ops,         \* transport operations performed so far (recv / send)
  vaspCalls,   \* commands.getoutput(vaspcmd) calls since the last recv
  vaspRuns,    \* commands.getoutput(vaspcmd) calls in total
  vaspStatus,  \* how the VASP run for the last request ended, "none" before
  exitStatus,  \* NotExited, 0 or 1
  errtxt       \* what the process reported when it stopped

vars == <<pc, natoms, ntypes, msgID, protocol, coords, types, poscar, vasprun,
          forces, virial, ops, vaspCalls, vaspRuns, vaspStatus, exitStatus,
          errtxt>>

\* State of python/examples/vizplotgui_atomeye.py, a second, independent
\* script of the repository.
VARIABLES
  gpc,         \* position in the GUI script
  nfreq,       \* Nfreq of the command line
  runflag,     \* set by the Run button, cleared by the Stop button
  breakflag,   \* set by the Quit button
  temptarget,  \* last slider value taken by settemp, in tenths
  slider,      \* value the slider shows, in tenths
  running,     \* whether the previous loop pass ran with runflag set
  temp,        \* temperature of the last fix langevin command, in tenths
  seed,        \* the seed variable of the script
  ntimestep,   \* timesteps run so far
  xaxis,       \* timesteps plotted (yaxis holds one opaque value for each)
  cmds         \* run and fix commands handed to lmp.command so far

gvars == <<gpc, nfreq, runflag, breakflag, temptarget, slider, running, temp,
           seed, ntimestep, xaxis, cmds>>

\* ------------------------------------------------------------- helpers
RecvOp(id, nf) == [op |-> "recv", id |-> id, nfield |-> nf, fields |-> <<>>]
SendOp(id, nf, fs) == [op |-> "send", id |-> id, nfield |-> nf, fields |-> fs]
Field(fid, len, packed) == [fid |-> fid, len |-> len, packed |-> packed]

\* vasp_setup, lines 67-75: count words up to the first '#'
RECURSIVE SetupLoop(_, _, _, _)
SetupLoop(words, k, nt, na) ==
  IF k > Len(words) THEN [natoms |-> na, ntypes |-> nt]
  ELSE IF words[k] = Hash THEN [natoms |-> na, ntypes |-> nt]
  ELSE SetupLoop(words, k + 1, nt + 1, na + words[k])

vasp_setup(words) == SetupLoop(words, 1, 0, 0)

\* poscar_write, lines 100-107: the double loop over types and atoms.
\* i is the 0-based atom index of the code; a line is the triple of values
\* that "%g %g %g" prints.  The result carries the lines written and the
\* exception that ended the loop, if any.
RECURSIVE PoscarLoop(_, _, _, _, _, _, _)
PoscarLoop(na, nt, ty, co, itype, i, acc) ==
  IF itype > nt THEN [err |-> "", lines |-> acc]
  ELSE IF i >= na THEN PoscarLoop(na, nt, ty, co, itype + 1, 0, acc)
  ELSE IF i >= Len(ty) THEN [err |-> "IndexError types", lines |-> acc]
  ELSE IF ty[i + 1] # itype THEN PoscarLoop(na, nt, ty, co, itype, i + 1, acc)
  ELSE IF 3*i + 2 >= Len(co) THEN [err |-> "IndexError coords", lines |-> acc]
  ELSE PoscarLoop(na, nt, ty, co, itype, i + 1,
                  Append(acc, <<co[3*i + 1], co[3*i + 2], co[3*i + 3]>>))

poscar_write(na, nt, ty, co) == PoscarLoop(na, nt, ty, co, 1, 0, <<>>)

\* error(txt), lines 45-47: report and exit with status 1
error(txt) ==
  /\ errtxt' = txt
  /\ exitStatus' = 1
  /\ pc' = "exited"

\* an uncaught Python exception: traceback and exit status 1
raise(exc) ==
  /\ errtxt' = exc
  /\ exitStatus' = 1
  /\ pc' = "exited"

\* the GUI script before its first statement
GuiNotStarted ==
  /\ gpc = "start"
  /\ nfreq = 0
  /\ runflag = 0
  /\ breakflag = 0
  /\ temptarget = 0
  /\ slider = 0
  /\ running = 0
  /\ temp = 0
  /\ seed = 0
  /\ ntimestep = 0
  /\ xaxis = <<>>
  /\ cmds = <<>>

\* -------------------------------------------------------------- actions
Init ==
  /\ pc = "args"
  /\ natoms = 0
  /\ ntypes = 0
  /\ msgID = 0
  /\ protocol = ""
  /\ coords = <<>>
  /\ types = <<>>
  /\ poscar = <<>>
  /\ vasprun \in OldFiles
  /\ forces = [n |-> 0, stamp |-> 0]
  /\ virial = 0
  /\ ops = <<>>
  /\ vaspCalls = 0
  /\ vaspRuns = 0
  /\ vaspStatus = "none"
  /\ exitStatus = NotExited
  /\ errtxt = ""
  /\ GuiNotStarted

\* lines 164-177: command-line check, CSlib construction, vasp_setup
Startup ==
  /\ pc = "args"
  /\ UNCHANGED gvars
  /\ \E mode \in Modes, words \in Templates :
       IF mode \in {"file", "zmq"}
       THEN /\ natoms' = vasp_setup(words).natoms
            /\ ntypes' = vasp_setup(words).ntypes
            /\ pc' = "handshake"
            /\ UNCHANGED <<exitStatus, errtxt>>
       ELSE /\ errtxt' = "Syntax"
            /\ exitStatus' = 1
            /\ pc' = "exited"
            /\ UNCHANGED <<natoms, ntypes>>
  /\ UNCHANGED <<msgID, protocol, coords, types, poscar, vasprun, forces,
                 virial, ops, vaspCalls, vaspRuns, vaspStatus>>

\* lines 182-184: the two tests on the first message; "" when it passes
HandshakeVerdict_noproto(id, proto) ==
  IF id # 0 THEN "Bad initial client/server handshake" ELSE ""

HandshakeVerdict(id, proto) ==
  IF id # 0 THEN "Bad initial client/server handshake"
  ELSE IF proto # "md" THEN "Mismatch in client/server protocol"
  ELSE ""

\* lines 181-184: receive the first message and validate it; field 1 is
\* unpacked only once the message ID has passed
HandshakeRecv ==
  /\ pc = "handshake"
  /\ UNCHANGED gvars
  /\ \E id \in MsgIDs, proto \in Protocols :
       /\ msgID' = id
       /\ ops' = Append(ops, RecvOp(id, 1))
       /\ protocol' = IF id # 0 THEN protocol ELSE proto
       /\ IF HandshakeVerdict(id, proto) # ""
          THEN error(HandshakeVerdict(id, proto))
          ELSE /\ pc' = "ack"
               /\ UNCHANGED <<exitStatus, errtxt>>
  /\ UNCHANGED <<natoms, ntypes, coords, types, poscar, vasprun, forces,
                 virial, vaspCalls, vaspRuns, vaspStatus>>

\* line 185 left out: the loop is entered without the acknowledgment
HandshakeAck_skip ==
  /\ pc = "ack"
  /\ UNCHANGED gvars
  /\ pc' = "loop"
  /\ UNCHANGED <<natoms, ntypes, msgID, protocol, coords, types, poscar,
                 vasprun, forces, virial, ops, vaspCalls, vaspRuns, vaspStatus,
                 exitStatus, errtxt>>

\* line 185: cs.send(0,0)
HandshakeAck ==
  /\ pc = "ack"
  /\ UNCHANGED gvars
  /\ ops' = Append(ops, SendOp(0, 0, <<>>))
  /\ pc' = "loop"
  /\ UNCHANGED <<natoms, ntypes, msgID, protocol, coords, types, poscar,
                 vasprun, forces, virial, vaspCalls, vaspRuns, vaspStatus,
                 exitStatus, errtxt>>

\* number of messages received inside the server loop so far
LoopRecvs == Cardinality({k \in DOMAIN ops : ops[k].op = "recv"}) - 1

\* line 195: the loop exit test
LoopExit_zero(id) == id = 0

LoopExit(id) == id < 0

\* line 195 with continue in the place of break
AfterRecv_continue(id) == IF LoopExit(id) THEN "loop" ELSE "unpack"

\* line 195: break leads to the final reply, otherwise the step is processed
AfterRecv(id) == IF LoopExit(id) THEN "final" ELSE "unpack"

\* lines 194-195: receive the next message; a negative ID ends the loop.
\* vaspCalls and vaspStatus are bookkeeping of the model, restarted here.
LoopRecv ==
  /\ pc = "loop"
  /\ UNCHANGED gvars
  /\ LoopRecvs < MaxRecv
  /\ \E id \in MsgIDs, nf \in {0, 1} :
       /\ msgID' = id
       /\ ops' = Append(ops, RecvOp(id, nf))
       /\ pc' = AfterRecv(id)
  /\ vaspCalls' = 0
  /\ vaspStatus' = "none"
  /\ UNCHANGED <<natoms, ntypes, protocol, coords, types, poscar, vasprun,
                 forces, virial, vaspRuns, exitStatus, errtxt>>

\* lines 204-206: coords = cs.unpack(COORDS,1); types = 2*[1].
\* A message without a COORDS field makes CSlib abort the process.
UnpackCoords ==
  /\ pc = "unpack"
  /\ UNCHANGED gvars
  /\ IF ops[Len(ops)].nfield = 0
     THEN /\ raise("CSlib unpack")
          /\ UNCHANGED <<coords, types>>
     ELSE /\ \E c \in ClientCoords : coords' = c
          /\ types' = <<1, 1>>
          /\ pc' = "poscar"
          /\ UNCHANGED <<exitStatus, errtxt>>
  /\ UNCHANGED <<natoms, ntypes, msgID, protocol, poscar, vasprun, forces,
                 virial, ops, vaspCalls, vaspRuns, vaspStatus>>

\* line 208: poscar_write(poscar_template,natoms,ntypes,types,coords,box)
PoscarWrite ==
  /\ pc = "poscar"
  /\ UNCHANGED gvars
  /\ LET r == poscar_write(natoms, ntypes, types, coords) IN
       /\ poscar' = r.lines
       /\ IF r.err # ""
          THEN raise(r.err)
          ELSE /\ pc' = "vasp"
               /\ UNCHANGED <<exitStatus, errtxt>>
  /\ UNCHANGED <<natoms, ntypes, msgID, protocol, coords, types, vasprun,
                 forces, virial, ops, vaspCalls, vaspRuns, vaspStatus>>

\* line 214: out = commands.getoutput(vaspcmd).  The call blocks until the
\* command has ended and never raises; the exit status is discarded.  VASP
\* either completes and writes a fresh vasprun.xml with one force vector per
\* POSCAR coordinate line, or fails leaving the working directory as it was,
\* or fails leaving a truncated vasprun.xml.
VaspOutcome(run) ==
  { [status |-> "ok",
     file |-> [state |-> "ok", nforce |-> 3 * Len(poscar), stamp |-> run]],
    [status |-> "failed", file |-> vasprun],
    [status |-> "failed",
     file |-> [state |-> "broken", nforce |-> 0, stamp |-> run]] }

\* line 214 run again until the command succeeds
InvokeVasp_retry ==
  /\ pc = "vasp"
  /\ UNCHANGED gvars
  /\ vaspRuns' = vaspRuns + 1
  /\ vaspCalls' = vaspCalls + 1
  /\ \E o \in VaspOutcome(vaspRuns + 1) :
       /\ vaspStatus' = o.status
       /\ vasprun' = o.file
       /\ pc' = IF o.status = "ok" THEN "read" ELSE "vasp"
  /\ UNCHANGED <<natoms, ntypes, msgID, protocol, coords, types, poscar,
                 forces, virial, ops, exitStatus, errtxt>>

InvokeVasp ==
  /\ pc = "vasp"
  /\ UNCHANGED gvars
  /\ vaspRuns' = vaspRuns + 1
  /\ vaspCalls' = vaspCalls + 1
  /\ \E o \in VaspOutcome(vaspRuns + 1) :
       /\ vaspStatus' = o.status
       /\ vasprun' = o.file
  /\ pc' = "read"
  /\ UNCHANGED <<natoms, ntypes, msgID, protocol, coords, types, poscar,
                 forces, virial, ops, exitStatus, errtxt>>

\* line 219 and vasprun_read, lines 116-157: parse whatever vasprun.xml is
\* in the working directory
VasprunRead ==
  /\ pc = "read"
  /\ UNCHANGED gvars
  /\ IF vasprun.state = "absent"
     THEN /\ raise("IOError")
          /\ UNCHANGED <<forces, virial>>
     ELSE IF vasprun.state = "broken"
     THEN /\ raise("ParseError")
          /\ UNCHANGED <<forces, virial>>
     ELSE /\ forces' = [n |-> vasprun.nforce, stamp |-> vasprun.stamp]
          /\ virial' = 6
          /\ pc' = "reply"
          /\ UNCHANGED <<exitStatus, errtxt>>
  /\ UNCHANGED <<natoms, ntypes, msgID, protocol, coords, types, poscar,
                 vasprun, ops, vaspCalls, vaspRuns, vaspStatus>>

\* lines 223-226: the response to the step request
Response ==
  SendOp(msgID, 3, << Field(FORCES, 3 * natoms, forces.n),
                      Field(ENERGY, 1, 1),
                      Field(VIRIAL, 6, virial) >>)

Reply ==
  /\ pc = "reply"
  /\ UNCHANGED gvars
  /\ ops' = Append(ops, Response)
  /\ pc' = "loop"
  /\ UNCHANGED <<natoms, ntypes, msgID, protocol, coords, types, poscar,
                 vasprun, forces, virial, vaspCalls, vaspRuns, vaspStatus,
                 exitStatus, errtxt>>

\* line 230 sending the ID just received
FinalMessage_msgID == SendOp(msgID, 0, <<>>)

\* line 230: cs.send(0,0)
FinalMessage == SendOp(0, 0, <<>>)

\* line 230: final reply to client
FinalReply ==
  /\ pc = "final"
  /\ UNCHANGED gvars
  /\ ops' = Append(ops, FinalMessage)
  /\ pc' = "cleanup"
  /\ UNCHANGED <<natoms, ntypes, msgID, protocol, coords, types, poscar,
                 vasprun, forces, virial, vaspCalls, vaspRuns, vaspStatus,
                 exitStatus, errtxt>>

\* line 234: del cs, then the script ends
CleanUp ==
  /\ pc = "cleanup"
  /\ UNCHANGED gvars
  /\ pc' = "done"
  /\ exitStatus' = 0
  /\ UNCHANGED <<natoms, ntypes, msgID, protocol, coords, types, poscar,
                 vasprun, forces, virial, ops, vaspCalls, vaspRuns,
                 vaspStatus, errtxt>>

Next ==
  \/ Startup
  \/ HandshakeRecv
  \/ HandshakeAck
  \/ LoopRecv
  \/ UnpackCoords
  \/ PoscarWrite
  \/ InvokeVasp
  \/ VasprunRead
  \/ Reply
  \/ FinalReply
  \/ CleanUp

Spec == Init /\ [][Next]_vars

\* ---------------------------------------------------------- type invariant
TypeOK ==
  /\ pc \in {"args", "handshake", "ack", "loop", "unpack", "poscar", "vasp",
             "read", "reply", "final", "cleanup", "done", "exited"}
  /\ natoms \in Nat /\ ntypes \in Nat
  /\ exitStatus \in {NotExited, 0, 1}
  /\ vaspStatus \in {"none", "ok", "failed"}

\* ---------------------------------------------------------------------
\* python/examples/vizplotgui_atomeye.py: a LAMMPS run driven from a Tk GUI
\* with Run, Stop and Quit buttons and a temperature slider.  The user is
\* the environment; button and slider callbacks run inside tkroot.update().

MaxCmds  == 4      \* no new loop pass once this many commands were issued
MaxNfreq == 2      \* largest Nfreq given on the command line

me == 0
InitialTemp == 10         \* temptarget = 1.0, in tenths
InitialSeed == 12345      \* seed = 12345
ReinvokeSeed == 12345     \* the seed written in the command of line 139
\* slider positions used, in tenths (the slider goes from 0.0 to 5.0 by 0.1)
SliderValues == {0, 10, 25}

\* "%g" of a slider value: at most one decimal, a zero decimal is dropped
fmt_g(t) == [int |-> t \div 10, frac |-> t % 10]

\* lmp.command("run %d pre .. post ..")
RunCmd(n, pre, post) ==
  [cmd |-> "run", n |-> n, pre |-> pre, post |-> post,
   temp |-> fmt_g(0), seed |-> 0]

\* lmp.command("fix 2 all langevin %g %g 0.1 <seed>")
FixCmd(t, sd) ==
  [cmd |-> "fix", n |-> 0, pre |-> "", post |-> "",
   temp |-> fmt_g(t), seed |-> sd]

\* line 132: the first fix langevin command prints the seed variable
FixInitial(t, sd) == FixCmd(t, sd)

\* line 139: the re-invoked fix langevin command; its seed is written out
\* in the format string, the seed variable is not printed
FixReinvoke(t, sd) == FixCmd(t, ReinvokeSeed)

\* lines 49-112: command line, LAMMPS set-up, 0-step run, GUI widgets; the
\* script then enters tkroot.update() of line 113, where callbacks can run
GuiStartup ==
  /\ gpc = "start"
  /\ \E argc \in {3, 4}, nf \in 1..MaxNfreq :
       IF argc # 4
       THEN /\ gpc' = "exited"
            /\ UNCHANGED <<nfreq, runflag, breakflag, temptarget, slider,
                           running, temp, seed, ntimestep, xaxis, cmds>>
       ELSE /\ nfreq' = nf
            /\ ntimestep' = 0
            /\ xaxis' = <<0>>
            /\ breakflag' = 0
            /\ runflag' = 0
            /\ temptarget' = InitialTemp
            /\ slider' = InitialTemp
            /\ cmds' = << RunCmd(0, "yes", "no") >>
            /\ gpc' = "setup_update"
            /\ UNCHANGED <<running, temp, seed>>
  /\ UNCHANGED vars

\* the places where Tk dispatches button and slider callbacks: inside
\* tkroot.update(), line 113 or line 135, and, the script being run with
\* python -i (line 1), at the interactive prompt once line 158 is passed.
\* A script that left on line 52 has built no GUI.
InUpdate == gpc \in {"setup_update", "update", "done"}

\* lines 113-132: tkroot.update() of the set-up returns, the plot is opened,
\* then running, temp and seed are set and the first fix langevin command
\* is issued with the target temperature of that moment
FirstFix ==
  /\ gpc = "setup_update"
  /\ running' = 0
  /\ temp' = temptarget
  /\ seed' = InitialSeed
  /\ cmds' = Append(cmds, FixInitial(temptarget, InitialSeed))
  /\ gpc' = "update"
  /\ UNCHANGED <<nfreq, runflag, breakflag, temptarget, slider, ntimestep,
                 xaxis>>
  /\ UNCHANGED vars

\* lines 23-25, Run button
run ==
  /\ InUpdate
  /\ runflag' = 1
  /\ UNCHANGED <<gpc, nfreq, breakflag, temptarget, slider, running, temp,
                 seed, ntimestep, xaxis, cmds>>
  /\ UNCHANGED vars

\* lines 26-28, Stop button
stop ==
  /\ InUpdate
  /\ runflag' = 0
  /\ UNCHANGED <<gpc, nfreq, breakflag, temptarget, slider, running, temp,
                 seed, ntimestep, xaxis, cmds>>
  /\ UNCHANGED vars

\* lines 106-107: the user drags the slider
SliderDrag ==
  /\ InUpdate
  /\ \E v \in SliderValues : slider' = v
  /\ UNCHANGED <<gpc, nfreq, runflag, breakflag, temptarget, running, temp,
                 seed, ntimestep, xaxis, cmds>>
  /\ UNCHANGED vars

\* lines 29-31, button release over the slider
settemp ==
  /\ InUpdate
  /\ temptarget' = slider
  /\ UNCHANGED <<gpc, nfreq, runflag, breakflag, slider, running, temp,
                 seed, ntimestep, xaxis, cmds>>
  /\ UNCHANGED vars

\* lines 32-34, Quit button
quit ==
  /\ InUpdate
  /\ breakflag' = 1
  /\ UNCHANGED <<gpc, nfreq, runflag, temptarget, slider, running, temp,
                 seed, ntimestep, xaxis, cmds>>
  /\ UNCHANGED vars

\* line 135: tkroot.update() returns
UpdateReturn ==
  /\ gpc = "update"
  /\ Len(cmds) < MaxCmds
  /\ gpc' = "tempcheck"
  /\ UNCHANGED <<nfreq, runflag, breakflag, temptarget, slider, running,
                 temp, seed, ntimestep, xaxis, cmds>>
  /\ UNCHANGED vars

\* lines 136-140: re-invoke fix langevin when the target has changed
TempCheck ==
  /\ gpc = "tempcheck"
  /\ IF temp # temptarget
     THEN /\ temp' = temptarget
          /\ seed' = seed + me + 1
          /\ cmds' = Append(cmds, FixReinvoke(temptarget, seed + me + 1))
          /\ running' = 0
     ELSE UNCHANGED <<temp, seed, cmds, running>>
  /\ gpc' = "runstep"
  /\ UNCHANGED <<nfreq, runflag, breakflag, temptarget, slider, ntimestep,
                 xaxis>>
  /\ UNCHANGED vars

\* lines 141-152: the run command chosen from runflag and running, then
\* ntimestep += nfreq and update(ntimestep), which plots one more point
RunChoice(rf, rg) ==
  IF rf = 1 /\ rg = 1 THEN <<RunCmd(nfreq, "no", "no")>>
  ELSE IF rf = 1 /\ rg = 0 THEN <<RunCmd(nfreq, "yes", "no")>>
  ELSE IF rf = 0 /\ rg = 1 THEN <<RunCmd(nfreq, "no", "yes")>>
  ELSE <<>>

RunStep ==
  /\ gpc = "runstep"
  /\ cmds' = cmds \o RunChoice(runflag, running)
  /\ IF RunChoice(runflag, running) # <<>>
     THEN /\ ntimestep' = ntimestep + nfreq
          /\ xaxis' = Append(xaxis, ntimestep + nfreq)
     ELSE UNCHANGED <<ntimestep, xaxis>>
  /\ gpc' = "loopend"
  /\ UNCHANGED <<nfreq, runflag, breakflag, temptarget, slider, running,
                 temp, seed>>
  /\ UNCHANGED vars

\* lines 153-156: leave the loop on Quit, else remember whether it ran
LoopEnd ==
  /\ gpc = "loopend"
  /\ IF breakflag = 1
     THEN /\ gpc' = "final"
          /\ UNCHANGED running
     ELSE /\ running' = (IF runflag = 1 THEN 1 ELSE 0)
          /\ gpc' = "update"
  /\ UNCHANGED <<nfreq, runflag, breakflag, temptarget, slider, temp, seed,
                 ntimestep, xaxis, cmds>>
  /\ UNCHANGED vars

\* line 158: lmp.command("run 0 pre no post yes"); the interpreter then stays
\* at its prompt with the GUI alive, and no command is issued any more
FinalRun ==
  /\ gpc = "final"
  /\ cmds' = Append(cmds, RunCmd(0, "no", "yes"))
  /\ gpc' = "done"
  /\ UNCHANGED <<nfreq, runflag, breakflag, temptarget, slider, running,
                 temp, seed, ntimestep, xaxis>>
  /\ UNCHANGED vars

\* the server script is not started while the GUI script is studied
ServerNotStarted ==
  /\ pc = "args"
  /\ natoms = 0
  /\ ntypes = 0
  /\ msgID = 0
  /\ protocol = ""
  /\ coords = <<>>
  /\ types = <<>>
  /\ poscar = <<>>
  /\ vasprun = AbsentFile
  /\ forces = [n |-> 0, stamp |-> 0]
  /\ virial = 0
  /\ ops = <<>>
  /\ vaspCalls = 0
  /\ vaspRuns = 0
  /\ vaspStatus = "none"
  /\ exitStatus = NotExited
  /\ errtxt = ""

InitGui == ServerNotStarted /\ GuiNotStarted

NextGui ==
  \/ GuiStartup
  \/ FirstFix
  \/ run
  \/ stop
  \/ SliderDrag
  \/ settemp
  \/ quit
  \/ UpdateReturn
  \/ TempCheck
  \/ RunStep
  \/ LoopEnd
  \/ FinalRun

SpecGui == InitGui /\ [][NextGui]_gvars

\* ------------------------------------------------------------ properties
Last == ops[Len(ops)]
Ack  == SendOp(0, 0, <<>>)
IsStepResponse(m) == m.op = "send" /\ m.nfield = 3

\* C1: a first message with a non-zero ID, or with a protocol string other
\* than "md", makes the server report an error and exit with status 1; no
\* acknowledgment is sent, nothing more is received and VASP is not run.
C1_FailedHandshakeFatal ==
  (Len(ops) >= 1 /\ (ops[1].id # 0 \/ protocol # "md")) =>
     /\ pc = "exited"
     /\ exitStatus = 1
     /\ errtxt \in {"Bad initial client/server handshake",
                    "Mismatch in client/server protocol"}
     /\ Len(ops) = 1
     /\ vaspRuns = 0
     /\ poscar = <<>>

C1_Witness ==
  /\ pc = "exited"
  /\ Len(ops) = 1
  /\ ops[1].id = 0
  /\ protocol = "mc"
  /\ errtxt = "Mismatch in client/server protocol"

\* C2: a message with ID 0 received inside the server loop ends the loop:
\* COORDS is not unpacked, POSCAR is not written, VASP is not run and no
\* further message is received.
C2_AllDoneEndsLoop ==
  \A k \in 3..Len(ops) :
    (ops[k].op = "recv" /\ ops[k].id = 0) =>
       /\ pc \in {"final", "cleanup", "done"}
       /\ vaspCalls = 0
       /\ \A j \in (k + 1)..Len(ops) : ops[j].op # "recv"

\* C3: the transport operations of the server alternate recv, send, recv,
\* send, ... starting with a recv.
C3_StrictAlternation ==
  \A k \in DOMAIN ops : ops[k].op = (IF k % 2 = 1 THEN "recv" ELSE "send")

C3_Witness ==
  /\ pc = "done"
  /\ Len(ops) = 6
  /\ IsStepResponse(ops[4])

\* C4: once the server has left its loop, the last message it sent is the
\* ID-0 zero-field message, sent in answer to the message that ended the
\* loop, and no send or recv follows it before or after the session is
\* released.
C4_TerminationHandshake ==
  /\ [](pc \in {"cleanup", "done"} =>
          /\ Last = Ack
          /\ ops[Len(ops) - 1].op = "recv"
          /\ LoopExit(ops[Len(ops) - 1].id))
  /\ [][(pc \in {"cleanup", "done"}) => (ops' = ops)]_vars

C4_Witness ==
  /\ pc = "cleanup"
  /\ Last = Ack
  /\ ops[Len(ops) - 1].id < 0
  /\ Len(ops) >= 6

\* C5: after a first message with ID 0 and protocol "md" the server sends
\* exactly one ID-0 zero-field acknowledgment and only then enters the step
\* loop: no message of the loop is received or processed before it.
C5_SuccessfulHandshake ==
  /\ (Len(ops) >= 1 /\ ops[1].id = 0 /\ protocol = "md" /\ Len(ops) = 1)
        => pc = "ack"
  /\ pc \in {"loop", "unpack", "poscar", "vasp", "read", "reply", "final",
             "cleanup", "done"}
        => (Len(ops) >= 2 /\ ops[1] = RecvOp(0, 1) /\ protocol = "md"
            /\ ops[2] = Ack)
  /\ Len(ops) >= 3 => (ops[2] = Ack /\ ops[3].op = "recv")

C5_Witness ==
  /\ pc = "unpack"
  /\ Len(ops) = 3
  /\ ops[2] = Ack
  /\ protocol = "md"

\* C6: when the VASP run of a step failed, the server does not send the
\* normal three-field response for that step (a request with a positive ID,
\* a template with at least one atom).
C6_FailureSurfaced ==
  (pc = "loop" /\ Len(ops) >= 4 /\ IsStepResponse(Last) /\ Last.id >= 1
     /\ natoms >= 1)
    => vaspStatus = "ok"

\* C7: the response to a step request carries the ID of the request and the
\* three fields FORCES (3*natoms declared and packed), ENERGY (one double)
\* and VIRIAL (6), in this order (requests with a positive ID, a template
\* with at least one atom).
C7_ResponseShape ==
  \A k \in 4..Len(ops) :
    (ops[k].op = "send" /\ ops[k - 1].id >= 1 /\ natoms >= 1) =>
       /\ ops[k].id = ops[k - 1].id
       /\ ops[k].nfield = 3
       /\ ops[k].fields = << Field(FORCES, 3 * natoms, 3 * natoms),
                             Field(ENERGY, 1, 1),
                             Field(VIRIAL, 6, 6) >>

\* a VASP run starts after the recv of a step request and ends before any
\* further transport operation
RunsBetweenRecvAndSend ==
  /\ vaspRuns' = vaspRuns + 1
  /\ pc = "vasp"
  /\ Len(ops) >= 3
  /\ Last.op = "recv"
  /\ ~LoopExit(Last.id)
  /\ ops' = ops

\* C8: VASP is run exactly once for every step request answered, between
\* the recv of the request and the send of its response, never twice for
\* one request, never for the handshake and never after the loop has ended.
C8_OneComputationPerStep ==
  /\ [](vaspCalls <= 1)
  /\ [](pc = "reply" => vaspCalls = 1)
  /\ []((pc = "loop" /\ Len(ops) >= 4 /\ IsStepResponse(Last))
          => vaspCalls = 1)
  /\ [](Len(ops) <= 2 => vaspRuns = 0)
  /\ [][(vaspRuns' # vaspRuns) => RunsBetweenRecvAndSend]_vars
  /\ [][(pc \in {"handshake", "ack", "final", "cleanup", "done", "exited"})
          => (vaspRuns' = vaspRuns)]_vars

C8_Witness ==
  /\ pc = "loop"
  /\ IsStepResponse(Last)
  /\ vaspCalls = 1
  /\ vaspRuns = 2

\* C9: a negative message ID received in the loop ends the loop at once:
\* VASP is not run for it, no message with a negative ID is ever sent, and
\* the only message sent afterwards is the final ID-0 zero-field reply.
C9_NegativeIdEndsLoop ==
  /\ \A k \in DOMAIN ops : ops[k].op = "send" => ops[k].id >= 0
  /\ \A k \in 3..Len(ops) :
       (ops[k].op = "recv" /\ ops[k].id < 0) =>
          /\ vaspCalls = 0
          /\ IF k = Len(ops)
             THEN pc = "final"
             ELSE /\ k = Len(ops) - 1
                  /\ ops[k + 1] = Ack
                  /\ pc \in {"cleanup", "done"}

C9_Witness ==
  /\ pc = "done"
  /\ ops[Len(ops) - 1] = RecvOp(0 - 1, 0)
  /\ Last = Ack
  /\ vaspRuns >= 1

\* C10: for every natoms >= 1 a step writes a POSCAR with exactly natoms
\* coordinate lines, line i built from coords[3i..3i+2], and never reads
\* the types list out of range (requests with a positive ID that carry
\* 3*natoms coordinates).
C10_PoscarRewrite ==
  (/\ natoms >= 1
   /\ msgID >= 1
   /\ Len(coords) = 3 * natoms
   /\ pc = "vasp" \/ (pc = "exited" /\ errtxt = "IndexError types"))
    => /\ errtxt # "IndexError types"
       /\ poscar = [i \in 1..natoms |->
                      <<coords[3*i - 2], coords[3*i - 1], coords[3*i]>>]

\* positions of the fix commands before command k, and of the run and fix
\* commands strictly between commands j and k
FixesBefore(k) == {j \in 1..(k - 1) : cmds[j].cmd = "fix"}
RunsBetween(j, k) == {i \in (j + 1)..(k - 1) : cmds[i].cmd = "run"}
FixesBetween(j, k) == {i \in (j + 1)..(k - 1) : cmds[i].cmd = "fix"}

\* C11: the first run command issued after a fix langevin command, the
\* final run after Quit included, is issued with pre yes.
C11_PreYesAfterFix ==
  \A k \in DOMAIN cmds : \A j \in FixesBefore(k) :
    (cmds[k].cmd = "run" /\ RunsBetween(j, k) = {}) => cmds[k].pre = "yes"

\* C12: every re-invoked fix langevin command carries the new temperature
\* and a seed that differs from the seed of the fix langevin command before
\* it.
C12_NewSeedOnChange ==
  \A k \in DOMAIN cmds : \A j \in FixesBefore(k) :
    (cmds[k].cmd = "fix" /\ FixesBetween(j, k) = {}) =>
       /\ cmds[k].seed # cmds[j].seed
       /\ cmds[k].temp # cmds[j].temp
       /\ (FixesBetween(k, Len(cmds) + 1) = {}) => cmds[k].temp = fmt_g(temp)

====
